---- MODULE Spec2Model ----
(***************************************************************************)
(* SHARPy structural beam model (sharpy/structure/models/beam.py) and the  *)
(* settings conversion (sharpy/utils/settings.py).                         *)
(*                                                                         *)
(* Arrays are 0-based functions, as in the Python source.  A numpy pair    *)
(* [a, b] is the tuple <<a, b>>, so column 0 of the source is component 1. *)
(* Floating point quantities are modelled by integers.                     *)
(***************************************************************************)
EXTENDS Integers, Sequences, FiniteSets, TLC

VARIABLES
    status,              \* "new" (after __init__), "done" / "error" (after generate)
    exc,                 \* name of the exception generate ended with, or "none"
    lastOp,              \* the operation that produced the current state
    num_node, num_elem, num_node_elem,
    connectivities,      \* [elem -> [local node -> global node]]
    boundary_conditions, \* [node -> code]
    lumped,              \* "None"-flag and the table of lumped-mass records
    master,              \* [elem -> [local node -> <<elem, local node>>]]
    node_master_elem,    \* [node -> <<elem, local node>>]
    rbmass,              \* [elem -> [alloc, blk]] : Element.rbmass
    vdof, fdof, num_dof,
    ini_info,            \* StructTimeStepInfo built by generate
    timestep_info,       \* sequence of StructTimeStepInfo (index 1 is step 0)
    dynamic_input,       \* sequence of the 'dynamic_forces' entries
    stages,              \* the stages of generate completed so far, in order
    gen_in_data,         \* the in_data argument of the generate call under way
    dictionary, types, default, settings_exc   \* settings.to_custom_types

beamVars == <<status, exc, lastOp, num_node, num_elem, num_node_elem,
              connectivities, boundary_conditions, lumped, master,
              node_master_elem, rbmass, vdof, fdof, num_dof, ini_info,
              timestep_info, dynamic_input, stages, gen_in_data>>
settingsVars == <<dictionary, types, default, settings_exc>>
vars == <<beamVars, settingsVars>>

---------------------------------------------------------------------------
(* Bounds of the model *)
MaxNode == 3        \* num_node ranges over 1..MaxNode in the topology inputs
MaxElem == 2        \* num_elem ranges over 1..MaxElem in the topology inputs
MaxLumped == 2      \* at most this many lumped-mass records
MaxDofNode == 4     \* num_node ranges over 2..MaxDofNode in the DOF inputs
MaxSteps == 3       \* cap on Len(timestep_info)

(* Boundary-condition codes compared against in generate_dof_arrays *)
FREE == 0
KINEMATIC_ONLY == -1
FORCE_ONLY == 1
BoundaryCodes == {FREE, KINEMATIC_ONLY, FORCE_ONLY}

NumNodeElemValues == {2}   \* in_data['num_node_elem'] of the inputs drawn here

Range0(n) == 0 .. (n - 1)

\* Python sequence indexing: a negative index counts from the end.
PyIndex(i, n) == IF i < 0 THEN i + n ELSE i

---------------------------------------------------------------------------
(* 3x3 and 6x6 matrices: row a, column b of the source array is M[a + 1][b + 1] *)
Zero3 == <<<<0, 0, 0>>, <<0, 0, 0>>, <<0, 0, 0>>>>
Eye3 == <<<<1, 0, 0>>, <<0, 1, 0>>, <<0, 0, 1>>>>
Zero6 == [a \in 1..6 |-> [b \in 1..6 |-> 0]]
Transpose3(A) == [a \in 1..3 |-> [b \in 1..3 |-> A[b][a]]]
Dot3(A, B) == [a \in 1..3 |-> [b \in 1..3 |->
                  A[a][1] * B[1][b] + A[a][2] * B[2][b] + A[a][3] * B[3][b]]]
Scale3(m, A) == [a \in 1..3 |-> [b \in 1..3 |-> m * A[a][b]]]
Add3(A, B) == [a \in 1..3 |-> [b \in 1..3 |-> A[a][b] + B[a][b]]]
Add6(A, B) == [a \in 1..6 |-> [b \in 1..6 |-> A[a][b] + B[a][b]]]

\* algebra.rot_skew: r is the tuple <<rx, ry, rz>>
rot_skew(r) == << <<0, -r[3], r[2]>>,
                  <<r[3], 0, -r[1]>>,
                  <<-r[2], r[1], 0>> >>

\* the four 3x3 slices written into inertia_tensor by lump_masses
inertia_tensor(m, r, j) ==
    LET r_skew == rot_skew(r)
        tl == Scale3(m, Eye3)
        tr == Scale3(m, Transpose3(r_skew))
        bl == Scale3(m, r_skew)
        br == Add3(j, Scale3(m, Dot3(Transpose3(r_skew), r_skew)))
    IN [a \in 1..6 |-> [b \in 1..6 |->
          IF a <= 3
          THEN IF b <= 3 THEN tl[a][b] ELSE tr[a][b - 3]
          ELSE IF b <= 3 THEN bl[a - 3][b] ELSE br[a - 3][b - 3]]]

---------------------------------------------------------------------------
(* generate_master_structure *)

\* inner for loop over j_node_local (no break: a later match overwrites)
RECURSIVE MasterInnerFor(_, _, _, _, _, _, _)
MasterInnerFor(conn, nne, i_elem, i_node_local, j_elem, j_node_local, cur) ==
    IF j_node_local >= nne THEN cur
    ELSE MasterInnerFor(conn, nne, i_elem, i_node_local, j_elem, j_node_local + 1,
            IF conn[i_elem][i_node_local] = conn[j_elem][j_node_local]
            THEN <<j_elem, j_node_local>> ELSE cur)

\* while master[i_elem, i_node_local, 0] == -1 and j_elem < i_elem
RECURSIVE MasterWhile(_, _, _, _, _, _)
MasterWhile(conn, nne, i_elem, i_node_local, j_elem, cur) ==
    IF cur[1] = -1 /\ j_elem < i_elem
    THEN MasterWhile(conn, nne, i_elem, i_node_local, j_elem + 1,
            MasterInnerFor(conn, nne, i_elem, i_node_local, j_elem, 0, cur))
    ELSE cur

MasterTable(conn, ne, nne) ==
    [i_elem \in Range0(ne) |->
        [i_node_local \in Range0(nne) |->
            MasterWhile(conn, nne, i_elem, i_node_local, 0, <<-1, -1>>)]]

(* generate_node_master_elem: k enumerates (i_elem, i_node_local) in loop order *)
RECURSIVE NodeMasterLoop(_, _, _, _, _, _)
NodeMasterLoop(conn, mst, ne, nne, k, nme) ==
    IF k >= ne * nne THEN nme
    ELSE LET i_elem == k \div nne
             i_node_local == k % nne
         IN NodeMasterLoop(conn, mst, ne, nne, k + 1,
                IF mst[i_elem][i_node_local][1] = -1
                THEN [nme EXCEPT ![conn[i_elem][i_node_local]] = <<i_elem, i_node_local>>]
                ELSE nme)

generate_node_master_elem(conn, mst, nn, ne, nne) ==
    NodeMasterLoop(conn, mst, ne, nne, 0, [n \in Range0(nn) |-> <<-1, -1>>])

---------------------------------------------------------------------------
(* generate_dof_arrays: the loop state is [v, f, vcounter, fcounter] *)

\* the body of the loop with the force counter advanced for a KINEMATIC_ONLY
\* node as well
DofStepKinematicAdvancesBoth(code, inode, st) ==
    IF code = 0
    THEN [v |-> [st.v EXCEPT ![inode] = st.vcounter + 1],
          f |-> [st.f EXCEPT ![inode] = st.fcounter + 1],
          vcounter |-> st.vcounter + 1, fcounter |-> st.fcounter + 1]
    ELSE IF code = -1
    THEN [st EXCEPT !.v = [st.v EXCEPT ![inode] = st.vcounter + 1],
                    !.vcounter = st.vcounter + 1,
                    !.fcounter = st.fcounter + 1]
    ELSE IF code = 1
    THEN [st EXCEPT !.f = [st.f EXCEPT ![inode] = st.fcounter + 1],
                    !.fcounter = st.fcounter + 1]
    ELSE st

\* the body of the loop over inode, with a kinematic-only node that takes the
\* next velocity index without advancing the counter
DofStepStaleCounter(code, inode, st) ==
    IF code = 0
    THEN [v |-> [st.v EXCEPT ![inode] = st.vcounter + 1],
          f |-> [st.f EXCEPT ![inode] = st.fcounter + 1],
          vcounter |-> st.vcounter + 1, fcounter |-> st.fcounter + 1]
    ELSE IF code = -1
    THEN [st EXCEPT !.v = [st.v EXCEPT ![inode] = st.vcounter + 1]]
    ELSE IF code = 1
    THEN [st EXCEPT !.f = [st.f EXCEPT ![inode] = st.fcounter + 1],
                    !.fcounter = st.fcounter + 1]
    ELSE st

\* the body of the loop over inode
DofStep(code, inode, st) ==
    IF code = 0
    THEN [v |-> [st.v EXCEPT ![inode] = st.vcounter + 1],
          f |-> [st.f EXCEPT ![inode] = st.fcounter + 1],
          vcounter |-> st.vcounter + 1, fcounter |-> st.fcounter + 1]
    ELSE IF code = -1
    THEN [st EXCEPT !.v = [st.v EXCEPT ![inode] = st.vcounter + 1],
                    !.vcounter = st.vcounter + 1]
    ELSE IF code = 1
    THEN [st EXCEPT !.f = [st.f EXCEPT ![inode] = st.fcounter + 1],
                    !.fcounter = st.fcounter + 1]
    ELSE st

RECURSIVE DofLoop(_, _, _, _)
DofLoop(bc, nn, inode, st) ==
    IF inode >= nn THEN st
    ELSE DofLoop(bc, nn, inode + 1, DofStep(bc[inode], inode, st))

\* self.num_dof = ct.c_int(vcounter*6)
NumDof(vcounter) == vcounter * 6

generate_dof_arrays(bc, nn) ==
    LET st == DofLoop(bc, nn, 0,
                [v |-> [n \in Range0(nn) |-> -1], f |-> [n \in Range0(nn) |-> -1],
                 vcounter |-> -1, fcounter |-> -1])
    IN [vdof |-> st.v, fdof |-> st.f, num_dof |-> NumDof(st.vcounter)]

---------------------------------------------------------------------------
(* lump_masses *)

\* Element.max_nodes_elem: one rigid-body mass block per local node
max_nodes_elem(nne) == nne

\* Element.rbmass is None until lump_masses allocates it
NoRbmass(ne, nne) ==
    [e \in Range0(ne) |->
        [alloc |-> FALSE, blk |-> [ln \in Range0(max_nodes_elem(nne)) |-> Zero6]]]

\* a deposit that assigns the block instead of accumulating into it
DepositOverwrite(block, tensor) == tensor

\* rbmass[i_lumped_master_node_local, :, :] += inertia_tensor
Deposit(block, tensor) == Add6(block, tensor)

\* one iteration of the loop over i_lumped; table[i_lumped + 1] holds
\* lumped_mass, lumped_mass_position, lumped_mass_inertia, lumped_mass_nodes
LumpOne(rec, nme, ne, nne, rb) ==
    LET i_lumped_master_elem == PyIndex(nme[rec.node][1], ne)
        i_lumped_master_node_local == PyIndex(nme[rec.node][2], max_nodes_elem(nne))
        allocated == IF rb[i_lumped_master_elem].alloc THEN rb
                     ELSE [rb EXCEPT ![i_lumped_master_elem].alloc = TRUE]
    IN [allocated EXCEPT
          ![i_lumped_master_elem].blk[i_lumped_master_node_local] =
              Deposit(@, inertia_tensor(rec.m, rec.r, rec.j))]

RECURSIVE LumpLoop(_, _, _, _, _, _)
LumpLoop(table, nme, ne, nne, i_lumped, rb) ==
    IF i_lumped >= Len(table) THEN rb
    ELSE LumpLoop(table, nme, ne, nne, i_lumped + 1,
                  LumpOne(table[i_lumped + 1], nme, ne, nne, rb))

lump_masses(table, nme, ne, nne) == LumpLoop(table, nme, ne, nne, 0, NoRbmass(ne, nne))

---------------------------------------------------------------------------
(* StructTimeStepInfo *)
NewTimeStepInfo == [pos |-> 0, psi |-> 0, quat |-> 0, steady_applied_forces |-> 0]
TimeStepCopy(tsi) == tsi
TimeStepUpdateOrientation(tsi, quat) == [tsi EXCEPT !.quat = quat]

---------------------------------------------------------------------------
(* Beam.__init__ *)
InitBeam ==
    /\ status = "new" /\ exc = "none" /\ lastOp = "init"
    /\ num_node = -1 /\ num_elem = -1 /\ num_node_elem = -1
    /\ connectivities = "None" /\ boundary_conditions = "None"
    /\ lumped = [present |-> FALSE, table |-> <<>>]
    /\ master = "None" /\ node_master_elem = "None" /\ rbmass = "None"
    /\ vdof = "None" /\ fdof = "None" /\ num_dof = 0
    /\ ini_info = "None" /\ timestep_info = <<>> /\ dynamic_input = <<>>
    /\ stages = <<>> /\ gen_in_data = "None"

InitSettingsIdle ==
    /\ dictionary = "None" /\ types = "None" /\ default = "None"
    /\ settings_exc = [name |-> "idle", key |-> "", at |-> 0]

\* the stages in the order the model description gives them, with the
\* reading of the remaining input where the code has it
GenerateOrderSnapshotLast ==
    << "stiffness_db", "input", "elements", "master_structure", "lumped_masses",
       "dof_arrays", "generate_psi", "snapshot" >>

(* The stages of Beam.generate, in the order of its statements *)
GenerateOrder ==
    << "stiffness_db",     \* sizes, ini_info, connectivities, inverse stiffness
       "input",            \* mass data, frame, twist, boundary codes, forces
       "elements",         \* the Element array
       "generate_psi",     \* initial orientation vector of every element node
       "master_structure", \* master/slave table and node -> master map
       "snapshot",         \* ini_info completed and appended as step 0
       "lumped_masses",    \* lumped-mass tables and lump_masses
       "dof_arrays" >>     \* generate_dof_arrays, generate_fortran

(* Beam.generate(in_data, settings) *)
Generate(in_data) ==
    /\ status = "new"
    /\ lastOp' = "generate"
    /\ num_node_elem' = in_data.num_node_elem
    /\ num_node' = in_data.num_node
    /\ num_elem' = in_data.num_elem
    /\ connectivities' = in_data.connectivities
    /\ IF ~in_data.has_boundary_conditions
       THEN \* in_data['boundary_conditions'] raises KeyError
            /\ status' = "error" /\ exc' = "KeyError"
            /\ ini_info' = [NewTimeStepInfo EXCEPT !.pos = in_data.coordinates]
            /\ stages' = SubSeq(GenerateOrder, 1, 1)
            /\ UNCHANGED <<boundary_conditions, lumped, master, node_master_elem,
                           rbmass, vdof, fdof, num_dof, timestep_info>>
       ELSE LET nn == in_data.num_node
                ne == in_data.num_elem
                nne == in_data.num_node_elem
                mst == MasterTable(in_data.connectivities, ne, nne)
                nme == generate_node_master_elem(in_data.connectivities, mst, nn, ne, nne)
                ini == TimeStepUpdateOrientation(
                          [NewTimeStepInfo EXCEPT
                              !.pos = in_data.coordinates,
                              !.psi = in_data.psi_ini,
                              !.steady_applied_forces = in_data.app_forces],
                          in_data.orientation)
                dof == generate_dof_arrays(in_data.boundary_conditions, nn)
            IN /\ boundary_conditions' = in_data.boundary_conditions
               /\ master' = mst
               /\ node_master_elem' = nme
               /\ ini_info' = ini
               /\ timestep_info' =
                     Append(timestep_info,
                            [TimeStepCopy(ini) EXCEPT
                                !.steady_applied_forces = in_data.app_forces])
               /\ lumped' = [present |-> in_data.has_lumped_mass,
                             table |-> IF in_data.has_lumped_mass
                                       THEN in_data.lumped ELSE <<>>]
               /\ rbmass' = IF in_data.has_lumped_mass
                            THEN lump_masses(in_data.lumped, nme, ne, nne)
                            ELSE NoRbmass(ne, nne)
               /\ vdof' = dof.vdof /\ fdof' = dof.fdof /\ num_dof' = dof.num_dof
               /\ status' = "done" /\ exc' = "none"
               /\ stages' = GenerateOrder
    /\ UNCHANGED <<dynamic_input, gen_in_data, settingsVars>>

---------------------------------------------------------------------------
(* Inputs *)
InertiaA == Zero3
InertiaB == <<<<1, 1, 0>>, <<1, 2, 0>>, <<0, 0, 3>>>>
\* mass, offset and inertia of the lumped masses drawn
LumpedKinds == { [m |-> 2, r |-> <<1, 0, 0>>, j |-> InertiaA],
                 [m |-> 1, r |-> <<0, 1, 2>>, j |-> InertiaB] }
LumpedEntries(nn) ==
    { [m |-> k.m, r |-> k.r, j |-> k.j, node |-> n] : k \in LumpedKinds, n \in Range0(nn) }
LumpedTables(nn) == UNION { [1..k -> LumpedEntries(nn)] : k \in 0..MaxLumped }

ConnTables(nn, ne, nne) == [Range0(ne) -> [Range0(nne) -> Range0(nn)]]
ChainConn(ne) == [e \in Range0(ne) |-> [ln \in Range0(2) |-> e + ln]]

InData(nn, ne, nne, conn, hasbc, bc, haslm, lm, forces, quat) ==
    [num_node |-> nn, num_elem |-> ne, num_node_elem |-> nne,
     connectivities |-> conn, coordinates |-> 1, psi_ini |-> 1,
     has_boundary_conditions |-> hasbc, boundary_conditions |-> bc,
     has_lumped_mass |-> haslm, lumped |-> lm,
     app_forces |-> forces, orientation |-> quat]

AllFree(nn) == [n \in Range0(nn) |-> FREE]

\* generate on every connectivity table within the bounds, without lumped
\* masses, with or without boundary codes
GenerateTopology ==
    \E nn \in 1..MaxNode, ne \in 1..MaxElem, nne \in NumNodeElemValues :
        \E conn \in ConnTables(nn, ne, nne), hasbc \in BOOLEAN :
            Generate(InData(nn, ne, nne, conn, hasbc, AllFree(nn), FALSE, <<>>, 0, 0))

\* the beams the lumped-mass tables are drawn for: a chain of two elements, one
\* element that leaves node 2 out, one element that repeats node 0 and leaves
\* node 1 out
LumpedTopologies ==
    { [num_node |-> 3, conn |-> ChainConn(2)],
      [num_node |-> 3, conn |-> ChainConn(1)],
      [num_node |-> 2, conn |-> [e \in Range0(1) |-> [ln \in Range0(2) |-> 0]]] }

\* generate with every lumped-mass table within the bounds
GenerateLumped ==
    \E top \in LumpedTopologies :
        \E lm \in LumpedTables(top.num_node) :
            Generate(InData(top.num_node, Cardinality(DOMAIN top.conn), 2, top.conn,
                            TRUE, AllFree(top.num_node), TRUE, lm, 0, 0))

Init == InitBeam /\ InitSettingsIdle
Next ==
    \/ GenerateTopology
    \/ GenerateLumped
Spec == Init /\ [][Next]_vars

---------------------------------------------------------------------------
(* Beam.generate stage by stage: every action is one stage of generate, which *)
(* runs when the stages before it in GenerateOrder have completed.           *)
StageAt(name) ==
    /\ Len(stages) < Len(GenerateOrder)
    /\ GenerateOrder[Len(stages) + 1] = name
    /\ status = (IF Len(stages) = 0 THEN "new" ELSE "generating")

\* the stage has completed; generate returns after the last one
StageEnd(name, in_data) ==
    /\ stages' = Append(stages, name)
    /\ status' = (IF Len(stages) + 1 = Len(GenerateOrder) THEN "done" ELSE "generating")
    /\ gen_in_data' = (IF Len(stages) + 1 = Len(GenerateOrder) THEN "None" ELSE in_data)
    /\ exc' = "none" /\ lastOp' = "generate"

\* sizes, ini_info with the coordinates, connectivities, inverse stiffness
StartGenerate(in_data) ==
    /\ num_node_elem' = in_data.num_node_elem
    /\ num_node' = in_data.num_node
    /\ num_elem' = in_data.num_elem
    /\ ini_info' = [NewTimeStepInfo EXCEPT !.pos = in_data.coordinates]
    /\ connectivities' = in_data.connectivities
    /\ StageEnd("stiffness_db", in_data)
    /\ UNCHANGED <<boundary_conditions, lumped, master, node_master_elem, rbmass,
                   vdof, fdof, num_dof, timestep_info, dynamic_input, settingsVars>>

StageStiffnessDb ==
    /\ StageAt("stiffness_db")
    /\ \/ \E nn \in 1..MaxNode, ne \in 1..MaxElem, nne \in NumNodeElemValues :
             \E conn \in ConnTables(nn, ne, nne), hasbc \in BOOLEAN :
                 StartGenerate(InData(nn, ne, nne, conn, hasbc, AllFree(nn), FALSE,
                                      <<>>, 1, 1))
       \/ \E top \in LumpedTopologies :
             \E lm \in LumpedTables(top.num_node) :
                 StartGenerate(InData(top.num_node, Cardinality(DOMAIN top.conn), 2,
                                      top.conn, TRUE, AllFree(top.num_node), TRUE, lm,
                                      1, 1))

\* mass data, frame of reference, twist, boundary codes, beam number, forces
StageInput ==
    /\ StageAt("input")
    /\ IF ~gen_in_data.has_boundary_conditions
       THEN \* in_data['boundary_conditions'] raises KeyError
            /\ status' = "error" /\ exc' = "KeyError" /\ lastOp' = "generate"
            /\ gen_in_data' = "None"
            /\ UNCHANGED <<boundary_conditions, stages>>
       ELSE /\ boundary_conditions' = gen_in_data.boundary_conditions
            /\ StageEnd("input", gen_in_data)
    /\ UNCHANGED <<num_node, num_elem, num_node_elem, connectivities, lumped, master,
                   node_master_elem, rbmass, vdof, fdof, num_dof, ini_info,
                   timestep_info, dynamic_input, settingsVars>>

\* the Element array: every element starts without rbmass
StageElements ==
    /\ StageAt("elements")
    /\ rbmass' = NoRbmass(num_elem, num_node_elem)
    /\ StageEnd("elements", gen_in_data)
    /\ UNCHANGED <<num_node, num_elem, num_node_elem, connectivities,
                   boundary_conditions, lumped, master, node_master_elem, vdof, fdof,
                   num_dof, ini_info, timestep_info, dynamic_input, settingsVars>>

\* generate_psi
StagePsi ==
    /\ StageAt("generate_psi")
    /\ ini_info' = [ini_info EXCEPT !.psi = gen_in_data.psi_ini]
    /\ StageEnd("generate_psi", gen_in_data)
    /\ UNCHANGED <<num_node, num_elem, num_node_elem, connectivities,
                   boundary_conditions, lumped, master, node_master_elem, rbmass, vdof,
                   fdof, num_dof, timestep_info, dynamic_input, settingsVars>>

\* generate_master_structure, which ends with generate_node_master_elem
StageMasterStructure ==
    /\ StageAt("master_structure")
    /\ LET mst == MasterTable(connectivities, num_elem, num_node_elem)
       IN /\ master' = mst
          /\ node_master_elem' =
                generate_node_master_elem(connectivities, mst, num_node, num_elem,
                                          num_node_elem)
    /\ StageEnd("master_structure", gen_in_data)
    /\ UNCHANGED <<num_node, num_elem, num_node_elem, connectivities,
                   boundary_conditions, lumped, rbmass, vdof, fdof, num_dof, ini_info,
                   timestep_info, dynamic_input, settingsVars>>

\* steady forces and orientation of ini_info, and its copy appended as step 0
StageSnapshot ==
    /\ StageAt("snapshot")
    /\ LET ini == TimeStepUpdateOrientation(
                     [ini_info EXCEPT !.steady_applied_forces = gen_in_data.app_forces],
                     gen_in_data.orientation)
       IN /\ ini_info' = ini
          /\ timestep_info' =
                Append(timestep_info,
                       [TimeStepCopy(ini) EXCEPT
                           !.steady_applied_forces = gen_in_data.app_forces])
    /\ StageEnd("snapshot", gen_in_data)
    /\ UNCHANGED <<num_node, num_elem, num_node_elem, connectivities,
                   boundary_conditions, lumped, master, node_master_elem, rbmass, vdof,
                   fdof, num_dof, dynamic_input, settingsVars>>

\* the lumped-mass tables, and lump_masses when there are any
StageLumpedMasses ==
    /\ StageAt("lumped_masses")
    /\ lumped' = [present |-> gen_in_data.has_lumped_mass,
                  table |-> IF gen_in_data.has_lumped_mass
                            THEN gen_in_data.lumped ELSE <<>>]
    /\ rbmass' = IF gen_in_data.has_lumped_mass
                 THEN lump_masses(gen_in_data.lumped, node_master_elem, num_elem,
                                  num_node_elem)
                 ELSE rbmass
    /\ StageEnd("lumped_masses", gen_in_data)
    /\ UNCHANGED <<num_node, num_elem, num_node_elem, connectivities,
                   boundary_conditions, master, node_master_elem, vdof, fdof, num_dof,
                   ini_info, timestep_info, dynamic_input, settingsVars>>

\* generate_dof_arrays, then generate_fortran
StageDofArrays ==
    /\ StageAt("dof_arrays")
    /\ LET dof == generate_dof_arrays(boundary_conditions, num_node)
       IN vdof' = dof.vdof /\ fdof' = dof.fdof /\ num_dof' = dof.num_dof
    /\ StageEnd("dof_arrays", gen_in_data)
    /\ UNCHANGED <<num_node, num_elem, num_node_elem, connectivities,
                   boundary_conditions, lumped, master, node_master_elem, rbmass,
                   ini_info, timestep_info, dynamic_input, settingsVars>>

NextStages ==
    \/ StageStiffnessDb
    \/ StageInput
    \/ StageElements
    \/ StagePsi
    \/ StageMasterStructure
    \/ StageSnapshot
    \/ StageLumpedMasses
    \/ StageDofArrays
SpecStages == Init /\ [][NextStages]_vars

---------------------------------------------------------------------------
(* generate on the boundary-code inputs: a chain of 2-node elements *)
GenerateDof ==
    \E nn \in 2..MaxDofNode :
        \/ \E bc \in [Range0(nn) -> BoundaryCodes] :
              Generate(InData(nn, nn - 1, 2, ChainConn(nn - 1), TRUE, bc, FALSE, <<>>, 0, 0))
        \/ Generate(InData(nn, nn - 1, 2, ChainConn(nn - 1), FALSE, AllFree(nn), FALSE, <<>>, 0, 0))

NextDof == GenerateDof
SpecDof == Init /\ [][NextDof]_vars

---------------------------------------------------------------------------
(* The time-step sequence *)
Tokens == {0, 1}    \* values of a snapshot field
DefaultTs == -1     \* update_orientation(self, quat, ts=-1)

\* add_timestep without the copy of the previous snapshot
add_timestep_blank(tsi_list, ini) ==
    LET appended == Append(tsi_list, NewTimeStepInfo)
    IN [appended EXCEPT ![Len(appended)].steady_applied_forces = ini.steady_applied_forces]

\* add_timestep(self, timestep_info)
add_timestep(tsi_list, ini) ==
    LET appended == Append(tsi_list, NewTimeStepInfo)
        n == Len(appended)
        copied == IF n > 1
                  THEN [appended EXCEPT ![n] = TimeStepCopy(appended[n - 1])]
                  ELSE appended
    IN [copied EXCEPT ![n].steady_applied_forces = ini.steady_applied_forces]

RECURSIVE AddTimesteps(_, _, _)
AddTimesteps(tsi_list, ini, num_steps) ==
    IF num_steps = 0 THEN tsi_list
    ELSE AddTimesteps(add_timestep(tsi_list, ini), ini, num_steps - 1)

\* update_orientation acting on the first snapshot whatever ts is
UpdateOrientationAtFirst(tsi_list, quat, ts) ==
    [tsi_list EXCEPT ![1] = TimeStepUpdateOrientation(@, quat)]

\* timestep_info[ts] with Python indexing is element PyIndex(ts, len) + 1 here
UpdateOrientationAt(tsi_list, quat, ts) ==
    [tsi_list EXCEPT ![PyIndex(ts, Len(tsi_list)) + 1] = TimeStepUpdateOrientation(@, quat)]

\* the entries written into dynamic_input by add_unsteady_information
DynamicForces(has_dynamic_forces, it) == IF has_dynamic_forces THEN 1 + it ELSE 0

(* Beam.next_step *)
NextStep ==
    /\ status = "done"
    /\ Len(timestep_info) < MaxSteps
    /\ timestep_info' = add_timestep(timestep_info, ini_info)
    /\ lastOp' = "next_step"
    /\ UNCHANGED <<status, exc, num_node, num_elem, num_node_elem, connectivities,
                   boundary_conditions, lumped, master, node_master_elem, rbmass,
                   vdof, fdof, num_dof, ini_info, dynamic_input, stages,
                   gen_in_data, settingsVars>>

(* Beam.add_unsteady_information(dyn_dict, num_steps) *)
AddUnsteadyInformation ==
    /\ status = "done"
    /\ \E num_steps \in 0..(MaxSteps - Len(timestep_info)), has_dynamic_forces \in BOOLEAN :
          /\ timestep_info' =
                [AddTimesteps(timestep_info, ini_info, num_steps)
                    EXCEPT ![1] = TimeStepCopy(ini_info)]
          /\ dynamic_input' =
                LET grown == dynamic_input \o [it \in 1..num_steps |-> 0]
                IN [k \in 1..Len(grown) |->
                       IF k <= num_steps
                       THEN DynamicForces(has_dynamic_forces, k - 1)
                       ELSE grown[k]]
    /\ lastOp' = "add_unsteady_information"
    /\ UNCHANGED <<status, exc, num_node, num_elem, num_node_elem, connectivities,
                   boundary_conditions, lumped, master, node_master_elem, rbmass,
                   vdof, fdof, num_dof, ini_info, stages, gen_in_data,
                   settingsVars>>

(* Beam.update_orientation(quat) *)
UpdateOrientation ==
    /\ status = "done"
    /\ \E quat \in Tokens :
          timestep_info' = UpdateOrientationAt(timestep_info, quat, DefaultTs)
    /\ lastOp' = "update_orientation"
    /\ UNCHANGED <<status, exc, num_node, num_elem, num_node_elem, connectivities,
                   boundary_conditions, lumped, master, node_master_elem, rbmass,
                   vdof, fdof, num_dof, ini_info, dynamic_input, stages,
                   gen_in_data, settingsVars>>

(* The external solver overwrites fields of the latest snapshot *)
SolverWrite ==
    /\ status = "done"
    /\ \E p \in Tokens, f \in Tokens :
          timestep_info' = [timestep_info EXCEPT
                               ![Len(timestep_info)].pos = p,
                               ![Len(timestep_info)].steady_applied_forces = f]
    /\ lastOp' = "solver_write"
    /\ UNCHANGED <<status, exc, num_node, num_elem, num_node_elem, connectivities,
                   boundary_conditions, lumped, master, node_master_elem, rbmass,
                   vdof, fdof, num_dof, ini_info, dynamic_input, stages,
                   gen_in_data, settingsVars>>

\* generate on one 2-node beam, with the applied forces and orientation varying
GenerateTime ==
    \E forces \in Tokens, quat \in Tokens :
        Generate(InData(2, 1, 2, ChainConn(1), TRUE,
                        [n \in Range0(2) |-> IF n = 0 THEN KINEMATIC_ONLY ELSE FREE],
                        FALSE, <<>>, forces, quat))

NextTime ==
    \/ GenerateTime
    \/ NextStep
    \/ AddUnsteadyInformation
    \/ UpdateOrientation
    \/ SolverWrite
SpecTime == Init /\ [][NextTime]_vars

---------------------------------------------------------------------------
(* sharpy/utils/settings.py *)
MaxKeys == 2        \* at most this many entries in types

\* Python values: kind is the Python type, src tells the values of a kind apart
Val(kind, src) == [kind |-> kind, src |-> src]
Absent == Val("absent", "")        \* the key is not in the dictionary
PyNone == Val("None", "None")
IsStr(v) == v.kind = "str"
IsList(v) == v.kind = "list"
IsDict(v) == v.kind = "dict"

false_list == {"false", "off", "0", "no"}

\* the result of evaluating a Python expression: a value or a raised exception
Ok(v) == [raised |-> "none", val |-> v]
Raise(name) == [raised |-> name, val |-> PyNone]

\* pytype(v) for int and float on the values drawn: a numeric string parses,
\* a list, a dict or None raises TypeError
ParseNumber(v) == IF IsStr(v) THEN Ok(v) ELSE Raise("TypeError")

\* str2bool on the values drawn: None is falsy, a string outside false_list
\* is True, a list or a dict has no lower()
str2bool(v) ==
    IF v.kind = "None" THEN Ok(Val("bool", "False"))
    ELSE IF IsStr(v)
    THEN Ok(Val("bool", IF v.src \in false_list THEN "False" ELSE "True"))
    ELSE Raise("AttributeError")

\* cast(k, v, pytype, ctype, default): val = ctype(pytype(v)), where a
\* TypeError becomes NoDefaultValueException(k)
cast(v, pytype, ctype) ==
    LET parsed == CASE pytype \in {"int", "float"} -> ParseNumber(v)
                    [] pytype = "str" -> Ok(v)
                    [] OTHER -> str2bool(v)
    IN IF parsed.raised = "TypeError" THEN Raise("NoDefaultValueException")
       ELSE IF parsed.raised # "none" THEN parsed
       ELSE Ok(Val(ctype, parsed.val.src))

CType(v) == CASE v = "int" -> "c_int" [] v = "float" -> "c_double"
              [] v = "str" -> "str" [] OTHER -> "c_bool"

\* default[k].copy()
CopyDefault(d) == IF IsList(d) \/ IsDict(d) THEN Ok(d) ELSE Raise("AttributeError")


\* the except KeyError branch of a type: no default raises, else the default
\* is converted
OnKeyError(v, d) ==
    IF d = PyNone THEN Raise("NoDefaultValueException")
    ELSE IF v \in {"int", "float", "str", "bool"} THEN cast(d, v, CType(v))
    ELSE CopyDefault(d)

\* the try branch of a type, for a key that is present
OnPresent(v, x) ==
    CASE v \in {"int", "float", "str", "bool"} -> cast(x, v, CType(v))
      [] v = "list(str)" -> Ok(Val("stripped list", x.src))
      [] v = "list(float)" ->
            IF IsList(x) \/ IsStr(x) THEN Ok(Val("ndarray", x.src))
            ELSE Raise("AttributeError")
      [] OTHER -> Ok(x)

ConvertedTypes == {"int", "float", "str", "bool", "list(str)", "list(float)"}

\* one iteration of the loop over types.items(): the new dictionary[k], or
\* the exception that leaves the loop
ConvertKey(v, x, d) ==
    IF v \in ConvertedTypes
    THEN IF x = Absent THEN OnKeyError(v, d) ELSE OnPresent(v, x)
    ELSE IF v = "dict"
    THEN IF x = Absent THEN Raise("KeyError")
         ELSE IF IsDict(x) THEN Ok(x) ELSE Raise("TypeError")
    ELSE Ok(x)

\* to_custom_types(dictionary, types, default): the dictionary is converted in
\* place key by key until an exception leaves the function
RECURSIVE to_custom_types(_, _, _, _)
to_custom_types(dict, typs, dflt, i) ==
    IF i > Len(typs) THEN [dict |-> dict, name |-> "none", key |-> "", at |-> i]
    ELSE LET k == typs[i].k
             r == ConvertKey(typs[i].v, dict[k], dflt[k])
         IN IF r.raised # "none"
            THEN [dict |-> dict, name |-> r.raised, key |-> k, at |-> i]
            ELSE to_custom_types([dict EXCEPT ![k] = r.val], typs, dflt, i + 1)

KeyNames == <<"k1", "k2", "k3", "k4">>
TypeNames == ConvertedTypes \cup {"dict", "list(int)"}
DictionaryValues == {Absent, Val("str", "3"), Val("list", "given"), Val("dict", "given")}
DefaultValues == {PyNone, Val("str", "0"), Val("list", "default")}

InitSettings ==
    /\ InitBeam
    /\ \E n \in 1..MaxKeys :
        LET keys == {KeyNames[i] : i \in 1..n}
        IN /\ types \in { [i \in 1..n |-> [k |-> KeyNames[i], v |-> tv[i]]] :
                             tv \in [1..n -> TypeNames] }
           /\ dictionary \in [keys -> DictionaryValues]
           /\ default \in [keys -> DefaultValues]
           /\ settings_exc = [name |-> "pending", key |-> "", at |-> 0]

ToCustomTypes ==
    /\ settings_exc.name = "pending"
    /\ LET r == to_custom_types(dictionary, types, default, 1)
       IN /\ dictionary' = r.dict
          /\ settings_exc' = [name |-> r.name, key |-> r.key, at |-> r.at]
    /\ UNCHANGED <<types, default, beamVars>>

NextSettings == ToCustomTypes
SpecSettings == InitSettings /\ [][NextSettings]_vars

---------------------------------------------------------------------------
(* Properties of the topology *)
Nodes == Range0(num_node)
Occurrences(n) ==
    { p \in Range0(num_elem) \X Range0(num_node_elem) : connectivities[p[1]][p[2]] = n }
MasterOccurrences(n) == { p \in Occurrences(n) : master[p[1]][p[2]][1] = -1 }
LexLess(p, q) == p[1] < q[1] \/ (p[1] = q[1] /\ p[2] < q[2])
LexSmallest(S) == CHOOSE p \in S : \A q \in S \ {p} : LexLess(p, q)
Covered == \A n \in Nodes : Occurrences(n) # {}

\* C1: after generate_master_structure on a connectivity table in which every
\* global node appears, each node has exactly one occurrence marked master, it
\* is the lexicographically smallest occurrence of the node, and
\* node_master_elem records that pair.
C1_OneMasterLexSmallest ==
    (status = "done" /\ Covered) =>
        \A n \in Nodes :
            /\ Cardinality(MasterOccurrences(n)) = 1
            /\ MasterOccurrences(n) = {LexSmallest(Occurrences(n))}
            /\ node_master_elem[n] = LexSmallest(Occurrences(n))

\* the first match of the scan for occurrence (i, ln): smallest earlier
\* element holding the same global node, smallest local node within it
EarlierOccurrences(i, ln) ==
    { p \in Occurrences(connectivities[i][ln]) : p[1] < i }
SlaveOccurrences ==
    { p \in Range0(num_elem) \X Range0(num_node_elem) : master[p[1]][p[2]][1] # -1 }

\* C11: the master reference of every slave occurrence (i, ln) is the first
\* match of the scan, (j, jn) with the smallest j < i whose element holds the
\* same global node and the smallest jn within that j; it holds the same
\* global node and is itself a master occurrence.
C11_SlavePointsToFirstMatch ==
    status = "done" =>
        \A p \in SlaveOccurrences :
            LET m == master[p[1]][p[2]]
            IN /\ EarlierOccurrences(p[1], p[2]) # {}
               /\ m = LexSmallest(EarlierOccurrences(p[1], p[2]))
               /\ connectivities[m[1]][m[2]] = connectivities[p[1]][p[2]]
               /\ master[m[1]][m[2]][1] = -1

---------------------------------------------------------------------------
(* Properties of the order of generate *)
StagesDone == { stages[i] : i \in 1..Len(stages) }
\* rbmass is the array of the elements once the Element array is built
Deposited ==
    /\ "elements" \in StagesDone
    /\ \E e \in Range0(num_elem) : rbmass[e].alloc
DescribedOrder ==
    << "stiffness_db", "elements", "master_structure", "lumped_masses", "dof_arrays",
       "generate_psi", "snapshot" >>
IsDescribedStage(name) == \E i \in 1..Len(DescribedOrder) : DescribedOrder[i] = name

\* C12: generate runs cross-section database, Element model, topology,
\* lumped masses, DOF maps, initial orientation vectors, step-0 snapshot in
\* this order; topology is resolved before any lumped mass is deposited, and
\* the step-0 snapshot is appended only after lumped masses, DOF maps and
\* initial orientations exist.
C12_StagesInDescribedOrder ==
    /\ status = "done" => SelectSeq(stages, IsDescribedStage) = DescribedOrder
    /\ Deposited => "master_structure" \in StagesDone
    /\ timestep_info # <<>> =>
          {"lumped_masses", "dof_arrays", "generate_psi"} \subseteq StagesDone

\* C12 as amended: the order is cross-section database, remaining input,
\* Element model, initial orientation vectors, topology, step-0 snapshot,
\* lumped masses, DOF maps; topology is resolved before any lumped mass is
\* deposited; the step-0 snapshot is appended when the initial orientation
\* vectors and the topology exist, and before the lumped masses and the DOF
\* maps are handled.
C12_StagesInCodeOrder ==
    LET order == << "stiffness_db", "input", "elements", "generate_psi",
                    "master_structure", "snapshot", "lumped_masses", "dof_arrays" >>
    IN /\ stages = SubSeq(order, 1, Len(stages))
       /\ status = "done" => stages = order
       /\ Deposited => "master_structure" \in StagesDone
       /\ timestep_info # <<>> <=> "snapshot" \in StagesDone
       /\ timestep_info # <<>> =>
             /\ {"generate_psi", "master_structure"} \subseteq StagesDone
             /\ timestep_info[1].psi = ini_info.psi /\ ini_info.psi # NewTimeStepInfo.psi
       /\ (stages # <<>> /\ stages[Len(stages)] = "snapshot") =>
             /\ ~lumped.present /\ ~Deposited
             /\ StagesDone \cap {"lumped_masses", "dof_arrays"} = {}

\* the step-0 snapshot is in place while the lumped masses of the input are
\* still to be consolidated
C12_Witness ==
    /\ status = "generating" /\ stages # <<>> /\ stages[Len(stages)] = "snapshot"
    /\ Len(timestep_info) = 1
    /\ gen_in_data.has_lumped_mass /\ Len(gen_in_data.lumped) > 0
    /\ ~Deposited /\ "master_structure" \in StagesDone

---------------------------------------------------------------------------
(* Properties of the DOF maps *)
HasVelocityDof == \E n \in Nodes : vdof[n] # -1
MaxOf(S) == CHOOSE x \in S : \A y \in S : y <= x

\* C2: after generate_dof_arrays on codes from {FREE, KINEMATIC_ONLY,
\* FORCE_ONLY}, vdof[n] is defined iff the code of n is not FORCE_ONLY, fdof[n]
\* is defined iff it is not KINEMATIC_ONLY, and neither map gives two nodes the
\* same index.
C2_DofDefinedAndInjective ==
    status = "done" =>
        /\ \A n \in Nodes :
              /\ (vdof[n] # -1) <=> (boundary_conditions[n] # FORCE_ONLY)
              /\ (fdof[n] # -1) <=> (boundary_conditions[n] # KINEMATIC_ONLY)
        /\ \A n1, n2 \in Nodes :
              n1 # n2 =>
                 /\ (vdof[n1] # -1 /\ vdof[n2] # -1) => vdof[n1] # vdof[n2]
                 /\ (fdof[n1] # -1 /\ fdof[n2] # -1) => fdof[n1] # fdof[n2]

\* a beam with every code, two of its nodes in each space
C2_Witness ==
    /\ status = "done" /\ num_node = 4
    /\ boundary_conditions = [n \in Range0(4) |->
                                 CASE n = 0 -> KINEMATIC_ONLY [] n = 1 -> FORCE_ONLY
                                   [] OTHER -> FREE]
    /\ vdof[0] # -1 /\ vdof[2] # -1 /\ fdof[1] # -1 /\ fdof[3] # -1

\* C3: whenever some node has a velocity DOF, num_dof = 6 * (1 + max(vdof)).
C3_TotalDofCount ==
    (status = "done" /\ HasVelocityDof) =>
        num_dof = 6 * (1 + MaxOf({vdof[n] : n \in Nodes}))

\* C4: when no node is FREE or KINEMATIC_ONLY, generate ends in a fatal error
\* instead of completing.
C4_DegenerateDofSpaceIsFatal ==
    status = "done" =>
        \E n \in Nodes : boundary_conditions[n] \in {FREE, KINEMATIC_ONLY}

\* the nodes before n whose code is in codes
NodesBefore(n, codes) == { k \in Nodes : k < n /\ boundary_conditions[k] \in codes }

\* C13: generate_dof_arrays numbers each space densely in ascending node
\* order: vdof[n] of a node with a velocity slot is the number of nodes before
\* it that are FREE or KINEMATIC_ONLY, fdof[n] of a node with a force slot is
\* the number of nodes before it that are FREE or FORCE_ONLY.
C13_DenseAscendingNumbering ==
    status = "done" =>
        \A n \in Nodes :
            /\ boundary_conditions[n] \in {FREE, KINEMATIC_ONLY} =>
                  vdof[n] = Cardinality(NodesBefore(n, {FREE, KINEMATIC_ONLY}))
            /\ boundary_conditions[n] \in {FREE, FORCE_ONLY} =>
                  fdof[n] = Cardinality(NodesBefore(n, {FREE, FORCE_ONLY}))

\* codes [KINEMATIC_ONLY, FREE]: vdof = [0, 1] and fdof = [sentinel, 0]
C13_Witness ==
    /\ status = "done" /\ num_node = 2
    /\ boundary_conditions[0] = KINEMATIC_ONLY /\ boundary_conditions[1] = FREE
    /\ vdof[0] = 0 /\ vdof[1] = 1
    /\ fdof[0] = -1 /\ fdof[1] = 0

---------------------------------------------------------------------------
(* Properties of the lumped masses *)

\* the 6x6 block of one record, entry by entry: m*I3 and m*skew(r)^T above,
\* m*skew(r) and J + m*skew(r)^T*skew(r) below
RecordBlock(rec) ==
    LET S == rot_skew(rec.r)
    IN [a \in 1..6 |-> [b \in 1..6 |->
         CASE a <= 3 /\ b <= 3 -> (IF a = b THEN rec.m ELSE 0)
           [] a <= 3 /\ b > 3 -> rec.m * S[b - 3][a]
           [] a > 3 /\ b <= 3 -> rec.m * S[a - 3][b]
           [] OTHER -> rec.j[a - 3][b - 3]
                       + rec.m * (S[1][a - 3] * S[1][b - 3] + S[2][a - 3] * S[2][b - 3]
                                  + S[3][a - 3] * S[3][b - 3])]]

RECURSIVE SumBlocks(_, _, _)
SumBlocks(table, n, i) ==
    IF i > Len(table) THEN Zero6
    ELSE IF table[i].node = n
         THEN Add6(RecordBlock(table[i]), SumBlocks(table, n, i + 1))
         ELSE SumBlocks(table, n, i + 1)

LumpedNodes == { lumped.table[i].node : i \in 1..Len(lumped.table) }

\* C5: after lump_masses, the master block of every global node holds the sum
\* of the blocks of the records attached to the node, and every block that is
\* the master block of no lumped-mass node is zero.
C5_MasterBlockIsSumOfRecords ==
    (status = "done" /\ lumped.present) =>
        /\ \A n \in Nodes :
              node_master_elem[n][1] # -1 =>
                 rbmass[node_master_elem[n][1]].blk[node_master_elem[n][2]]
                    = SumBlocks(lumped.table, n, 1)
        /\ \A e \in Range0(num_elem), ln \in Range0(num_node_elem) :
              (\A n \in LumpedNodes : node_master_elem[n] # <<e, ln>>) =>
                 rbmass[e].blk[ln] = Zero6

Permute(table, perm) == [i \in 1..Len(table) |-> table[perm[i]]]

\* C6: the rbmass blocks of every element are the same whatever the order of
\* the lumped-mass records in the table.
C6_OrderIndependent ==
    (status = "done" /\ lumped.present) =>
        \A perm \in Permutations(1..Len(lumped.table)) :
            lump_masses(Permute(lumped.table, perm), node_master_elem,
                        num_elem, num_node_elem) = rbmass

\* two different records deposited into the same block
C6_Witness ==
    /\ status = "done" /\ lumped.present /\ Len(lumped.table) = 2
    /\ lumped.table[1].m # lumped.table[2].m
    /\ lumped.table[1].node = lumped.table[2].node
    /\ node_master_elem[lumped.table[1].node][1] # -1
    /\ rbmass[node_master_elem[lumped.table[1].node][1]].alloc

\* C7: a lumped-mass record on a node whose node_master_elem entry is still
\* the -1 sentinel makes consolidation fail, and its mass is deposited in no
\* rbmass block.
C7_UnresolvedMasterIsFatal ==
    (status = "done" /\ lumped.present) =>
        \A i \in 1..Len(lumped.table) :
            node_master_elem[lumped.table[i].node][1] # -1

---------------------------------------------------------------------------
(* Properties of the time-step sequence *)
ModelOps == {"next_step", "add_unsteady_information", "update_orientation"}

\* C8: next_step on a non-empty sequence grows it by one, leaves the earlier
\* snapshots unchanged, and the new last snapshot equals the previous last
\* snapshot in every field.
C8_PushIsExactCopy ==
    [][ (lastOp' = "next_step" /\ Len(timestep_info) > 0) =>
           /\ Len(timestep_info') = Len(timestep_info) + 1
           /\ SubSeq(timestep_info', 1, Len(timestep_info)) = timestep_info
           /\ timestep_info'[Len(timestep_info')] = timestep_info[Len(timestep_info)]
      ]_vars

\* C8 as amended: the new last snapshot equals the previous last snapshot in
\* every field except steady_applied_forces, which is that of ini_info.
C8_PushCopiesButResetsSteadyForces ==
    [][ (lastOp' = "next_step" /\ Len(timestep_info) > 0) =>
           /\ Len(timestep_info') = Len(timestep_info) + 1
           /\ SubSeq(timestep_info', 1, Len(timestep_info)) = timestep_info
           /\ timestep_info'[Len(timestep_info')] =
                 [timestep_info[Len(timestep_info)] EXCEPT
                     !.steady_applied_forces = ini_info.steady_applied_forces]
      ]_vars

\* a push after the solver wrote other steady forces and another position into
\* the previous snapshot
C8_Witness ==
    /\ lastOp = "next_step" /\ Len(timestep_info) >= 2
    /\ LET n == Len(timestep_info)
       IN /\ timestep_info[n - 1].steady_applied_forces # ini_info.steady_applied_forces
          /\ timestep_info[n - 1].pos # ini_info.pos
          /\ timestep_info[n].pos = timestep_info[n - 1].pos
          /\ timestep_info[n].steady_applied_forces = ini_info.steady_applied_forces

\* C9: after generate, next_step, add_unsteady_information and
\* update_orientation (ts = -1) never change the snapshot at index 0.
C9_StepZeroNeverChanges ==
    [][ lastOp' \in ModelOps => timestep_info'[1] = timestep_info[1] ]_vars

\* C9 as amended: next_step leaves index 0 unchanged; add_unsteady_information
\* sets index 0 to a copy of ini_info, which is the step-0 snapshot generate
\* built and never changes afterwards; update_orientation (ts = -1) leaves
\* index 0 unchanged when the sequence holds more than one snapshot and
\* changes only its orientation when it holds one.
C9_StepZeroAmended ==
    [][ /\ (lastOp' = "generate" /\ status' = "done") => timestep_info'[1] = ini_info'
        /\ lastOp' \in ModelOps \cup {"solver_write"} => ini_info' = ini_info
        /\ lastOp' = "next_step" => timestep_info'[1] = timestep_info[1]
        /\ lastOp' = "add_unsteady_information" => timestep_info'[1] = ini_info
        /\ lastOp' = "update_orientation" =>
              IF Len(timestep_info) > 1
              THEN timestep_info'[1] = timestep_info[1]
              ELSE timestep_info'[1] =
                      [timestep_info[1] EXCEPT !.quat = timestep_info'[1].quat]
      ]_vars

\* update_orientation has changed the only snapshot, which is index 0
C9_Witness ==
    /\ lastOp = "update_orientation" /\ Len(timestep_info) = 1
    /\ timestep_info[1].quat # ini_info.quat

---------------------------------------------------------------------------
(* Properties of to_custom_types *)

\* the values drawn for the dictionary and for default differ in src, and so
\* do their conversions
FromDefault(v) == v.src \in {"0", "default", "False", "None"}

Called == settings_exc.name = "pending" /\ settings_exc'.name # "pending"
\* the entries of types the loop got to
Reached == { i \in 1..Len(types) : i <= settings_exc'.at }

\* a key that is absent with default None: NoDefaultValueException naming it,
\* nothing stored under it, and no later key converted
FailsWithNoDefault(i) ==
    LET k == types[i].k
    IN (dictionary[k] = Absent /\ default[k] = PyNone) =>
          /\ settings_exc' = [name |-> "NoDefaultValueException", key |-> k, at |-> i]
          /\ dictionary'[k] = Absent
          /\ \A j \in (i + 1)..Len(types) : dictionary'[types[j].k] = dictionary[types[j].k]

\* the default is stored only under an absent key whose default is not None,
\* and never in place of a present value
DefaultOnlyWhenAbsent(i) ==
    LET k == types[i].k
    IN /\ dictionary[k] # Absent => ~FromDefault(dictionary'[k])
       /\ (dictionary'[k] # Absent /\ FromDefault(dictionary'[k])) =>
             (dictionary[k] = Absent /\ default[k] # PyNone)

\* C10: for every key declared in types, an absent key with default None
\* fails at once with NoDefaultValueException naming the key and stores
\* nothing; a default is stored only for an absent key with a default that is
\* not None, and never replaces a present value.
C10_MissingWithoutDefaultFails ==
    [][ Called => \A i \in Reached : FailsWithNoDefault(i) /\ DefaultOnlyWhenAbsent(i) ]_vars

\* What to_custom_types does, type by type (C10): the above holds for the
\* keys declared int, float, str, bool, list(str) or list(float); a key
\* declared dict that is absent fails
\* with KeyError whatever its default, and a key of any other declared type is
\* left as it is, absent or not, without a failure; for no type is a default
\* stored in place of a present value or taken from a None default.
C10_AmendedByDeclaredType ==
    [][ Called =>
          \A i \in Reached :
             LET k == types[i].k
                 v == types[i].v
             IN /\ DefaultOnlyWhenAbsent(i)
                /\ v \in ConvertedTypes => FailsWithNoDefault(i)
                /\ (v = "dict" /\ dictionary[k] = Absent) =>
                      /\ settings_exc' = [name |-> "KeyError", key |-> k, at |-> i]
                      /\ dictionary'[k] = Absent
                /\ v \notin ConvertedTypes \cup {"dict"} =>
                      /\ dictionary'[k] = dictionary[k]
                      /\ settings_exc'.at # i
      ]_vars

====
